---- MODULE Spec2Model ----
(***************************************************************************)
(* A model of brain.py, the Q-learning "brain" that talks to the game      *)
(* through three files: it polls state.txt, learns, and publishes an       *)
(* action in action.txt through action.txt.tmp; every 1000 processed       *)
(* observations it saves the value table to q_table.json.                  *)
(*                                                                         *)
(* Numbers.  Q-values and rewards are Python floats; the model keeps them  *)
(* as integers in units of 1/QScale, and the exploration rate in units of  *)
(* 1/EpsScale.  QScale = 200^3 makes the update rule (one division by 10   *)
(* and one by 200 per update) exact for tables at most three updates deep. *)
(***************************************************************************)
EXTENDS Integers, Sequences, FiniteSets, TLC

\* ---------------------------------------------------------------- bounds
\* How many observation files the external producer deposits in a run.
MaxDeposits == 2
\* How many calls the pure-function specification makes.
MaxCalls == 2

\* ------------------------------------------------------- program constants
STATE_FILE == "state.txt"
ACTION_FILE == "action.txt"
ACTION_FILE_TMP_InPlace == "action.txt"
ACTION_FILE_TMP == "action.txt.tmp"
Q_TABLE_FILE == "q_table.json"
Paths == {STATE_FILE, ACTION_FILE, "action.txt.tmp", Q_TABLE_FILE}

QScale == 200 * 200 * 200
EpsScale == 10000 * 10000

\* LEARNING_RATE = 0.1, DISCOUNT_FACTOR = 0.95 = 19/20, EPSILON_DECAY = 0.9999
LEARNING_RATE_NUM == 1
LEARNING_RATE_DEN == 10
DISCOUNT_FACTOR_NUM == 19
DISCOUNT_FACTOR_DEN == 20
EPSILON_DECAY_NUM == 9999
EPSILON_DECAY_DEN == 10000
EPSILON_START == 1 * EpsScale
MIN_EPSILON == EpsScale \div 100
SAVE_EVERY == 1000

POSSIBLE_ACTIONS == <<"UP", "DOWN", "LEFT", "RIGHT", "JUMP", "NONE">>
Actions == {POSSIBLE_ACTIONS[i] : i \in 1..Len(POSSIBLE_ACTIONS)}

\* Python's None and a present value, for the optional locals of the loop.
None == <<>>
Some(x) == <<x>>

\* ------------------------------------------------------------ file contents
\* A missing file.  An action file holds a token and whether all of it has
\* reached the file (full = FALSE: a strict prefix of the token, possibly
\* nothing).  A state file holds the lines written so far, tagged with the
\* number of the deposit that wrote them.  A table file holds a table and
\* whether the dump completed.
Absent == [kind |-> "absent"]
ActionContent(tok, full) == [kind |-> "action", tok |-> tok, full |-> full]
StateContent(dep, lines) == [kind |-> "state", dep |-> dep, lines |-> lines]
TableContent(tab, full) == [kind |-> "table", tab |-> tab, full |-> full]
Exists(fsys, path) == fsys[path] # Absent

\* One line of a state file: whether it holds a colon, the text before the
\* first colon, and the text after it: an integer x ("int"), the decimal
\* x + 0.5 ("frac", which float() accepts and int() rejects) or text that
\* is no number ("bad").
Line(key, how, x) == [colon |-> TRUE, key |-> key, how |-> how, x |-> x]
NoColonLine == [colon |-> FALSE, key |-> "", how |-> "bad", x |-> 0]

EmptyDict == [k \in {} |-> 0]
DictPut(d, k, v) == [j \in DOMAIN d \cup {k} |-> IF j = k THEN v ELSE d[j]]
DictGet(d, k, dflt) == IF k \in DOMAIN d THEN d[k] ELSE dflt

\* float(value) and int(value): whether they raise ValueError, and their value.
FloatRaises(line) == line.how = "bad"
IntRaises(line) == line.how # "int"
FloatValue(line) == line.x * QScale + (IF line.how = "frac" THEN QScale \div 2 ELSE 0)

\* The loop of read_state_from_file over the lines of the file: the state
\* dict and the reward after line i, or err when a value does not parse.
RECURSIVE ParseFrom(_, _, _, _)
ParseFrom(lines, i, state, reward) ==
    IF i > Len(lines) THEN [err |-> FALSE, state |-> state, reward |-> reward]
    ELSE LET line == lines[i] IN
         IF ~line.colon THEN ParseFrom(lines, i + 1, state, reward)
         ELSE IF line.key = "reward"
              THEN IF FloatRaises(line)
                   THEN [err |-> TRUE, state |-> state, reward |-> reward]
                   ELSE ParseFrom(lines, i + 1, state, FloatValue(line))
              ELSE IF IntRaises(line)
                   THEN [err |-> TRUE, state |-> state, reward |-> reward]
                   ELSE ParseFrom(lines, i + 1, DictPut(state, line.key, line.x), reward)
ParseLines(lines) == ParseFrom(lines, 1, EmptyDict, 0)

\* ---------------------------------------------------------- state abstraction
\* The key f"screen:{..}-dead:{..}-hammer:{..}" as the tuple of its three
\* numbers behind a tag 1; the key "invalid" as the tuple behind a tag 0.
InvalidKey == <<0, 0, 0, 0>>
get_simplified_state_NoHammer(state) ==
    IF state = EmptyDict THEN InvalidKey
    ELSE <<1, DictGet(state, "screen_id", 0), DictGet(state, "is_dead", 0), 0>>
get_simplified_state(state) ==
    IF state = EmptyDict THEN InvalidKey
    ELSE <<1, DictGet(state, "screen_id", 0), DictGet(state, "is_dead", 0),
              DictGet(state, "has_hammer", 0)>>

\* The text of a key, character by character: str() of each integer between
\* the literal parts of the f-string, or the word "invalid".
DigitChars == <<"0", "1", "2", "3", "4", "5", "6", "7", "8", "9">>
RECURSIVE Digits(_)
Digits(n) == IF n < 10 THEN <<DigitChars[n + 1]>>
             ELSE Digits(n \div 10) \o <<DigitChars[(n % 10) + 1]>>
IntText(n) == IF n < 0 THEN <<"-">> \o Digits(0 - n) ELSE Digits(n)
KeyText(key) ==
    IF key[1] = 0 THEN <<"i", "n", "v", "a", "l", "i", "d">>
    ELSE <<"s", "c", "r", "e", "e", "n", ":">> \o IntText(key[2])
         \o <<"-", "d", "e", "a", "d", ":">> \o IntText(key[3])
         \o <<"-", "h", "a", "m", "m", "e", "r", ":">> \o IntText(key[4])

\* ------------------------------------------------------------- value table
\* The row a key gets the first time it is seen: {act: 0 for act in POSSIBLE_ACTIONS}.
ZeroRowOptimistic == [a \in Actions |-> QScale]
ZeroRow == [a \in Actions |-> 0]
EnsureRow(q, key) ==
    IF key \in DOMAIN q THEN q ELSE [k \in DOMAIN q \cup {key} |-> IF k = key THEN ZeroRow ELSE q[k]]

RECURSIVE SetMax(_)
SetMax(S) ==
    LET x == CHOOSE y \in S : TRUE
    IN  IF S = {x} THEN x
        ELSE LET m == SetMax(S \ {x}) IN IF x > m THEN x ELSE m
RowMax(row) == SetMax({row[a] : a \in DOMAIN row})

\* old + LEARNING_RATE * (reward + DISCOUNT_FACTOR * next_max - old)
NewQValue(old, reward, next_max) ==
    old + ((reward + (next_max \div DISCOUNT_FACTOR_DEN) * DISCOUNT_FACTOR_NUM - old)
              \div LEARNING_RATE_DEN) * LEARNING_RATE_NUM

\* q_table[key][action] = v
SetCellWholeRow(q, key, action, v) ==
    [q EXCEPT ![key] = [a \in DOMAIN q[key] \cup {action} |-> v]]
SetCell(q, key, action, v) ==
    [q EXCEPT ![key] = [a \in DOMAIN q[key] \cup {action} |->
                            IF a = action THEN v ELSE q[key][a]]]

\* The row update_q_table takes its maximum over.
NextMaxWrongRow(q, last_state_key, current_state_key) == RowMax(q[last_state_key])
NextMax(q, last_state_key, current_state_key) == RowMax(q[current_state_key])

\* The table update_q_table leaves behind.
update_q_table(q, last_state_key, action, reward, current_state_key) ==
    LET q1 == EnsureRow(q, last_state_key)
        q2 == EnsureRow(q1, current_state_key)
        old_q_value == DictGet(q2[last_state_key], action, 0)
        next_max_q == NextMax(q2, last_state_key, current_state_key)
    IN  SetCell(q2, last_state_key, action, NewQValue(old_q_value, reward, next_max_q))

\* choose_action's draw random.uniform(0, 1) < EPSILON: the draw lies in
\* [0, 1), so exploring needs EPSILON > 0 and exploiting needs EPSILON < 1.
CanExplore(eps) == eps > 0
CanExploit(eps) == eps < EpsScale
\* best_actions: every action whose value is the row's maximum.
BestActionsFirst(row) ==
    LET i == CHOOSE j \in 1..Len(POSSIBLE_ACTIONS) :
                 /\ POSSIBLE_ACTIONS[j] \in DOMAIN row
                 /\ row[POSSIBLE_ACTIONS[j]] = RowMax(row)
                 /\ \A h \in 1..(j - 1) : POSSIBLE_ACTIONS[h] \in DOMAIN row
                                               => row[POSSIBLE_ACTIONS[h]] # RowMax(row)
    IN  {POSSIBLE_ACTIONS[i]}
BestActions(row) == {a \in DOMAIN row : row[a] = RowMax(row)}

\* EPSILON *= EPSILON_DECAY, rounded to the nearest unit of the model as a
\* float product is rounded to the nearest float.
TimesDecay(eps) ==
    (eps \div EPSILON_DECAY_DEN) * EPSILON_DECAY_NUM
    + ((eps % EPSILON_DECAY_DEN) * EPSILON_DECAY_NUM + EPSILON_DECAY_DEN \div 2)
          \div EPSILON_DECAY_DEN

\* EPSILON after one choose_action call.
DecayEpsilonTwice(eps) == IF eps > MIN_EPSILON THEN TimesDecay(TimesDecay(eps)) ELSE eps
DecayEpsilon(eps) == IF eps > MIN_EPSILON THEN TimesDecay(eps) ELSE eps

\* ------------------------------------------------------------------- state
VARIABLES
    pc,                         \* where the agent is in its loop
    wret,                       \* who called write_action_to_file: "boot" or "learn"
    clock,                      \* time since start_time: 0 (< 2 s), 1 (< 4 s), 2
    initial_sequence_complete,
    action_to_perform,
    current_state,              \* None or Some(dict)
    reward,
    current_state_key,
    last_state_key,             \* None or Some(key)
    last_action,                \* None or Some(action)
    steps,
    q_table,
    EPSILON,
    fs,                         \* the directory: path -> content
    prod,                       \* the external producer of state.txt
    depCount,                   \* observation files deposited so far
    readSnap,                   \* what read_state_from_file last read from state.txt
    procPrev, procCur,          \* deposits of the last two processed observations
    nProc, nUpd, nPub,          \* processed observations, updates, publications
    prevAct,                    \* the action of the call before the latest call
                                \* of write_action_to_file ("": there is none)
    writeFailed,                \* a file operation of write_action_to_file has failed
    lastRenamed,                \* the action of the last call whose rename succeeded
    qcall                       \* the last call of the pure-function specification

loopVars == <<initial_sequence_complete, current_state, reward, current_state_key,
              last_state_key, last_action, steps>>
agentVars == <<pc, wret, action_to_perform, loopVars>>
learnVars == <<q_table, EPSILON>>
envVars == <<clock, prod, depCount>>
readHist == <<readSnap, procPrev, procCur, nProc, nUpd>>
histVars == <<readHist, nPub, prevAct, writeFailed, lastRenamed>>
vars == <<agentVars, learnVars, envVars, histVars, fs, qcall>>

NoQCall == [fn |-> "none", key |-> InvalidKey, nkey |-> InvalidKey, act |-> "",
            reward |-> 0, before |-> EmptyDict, eps |-> 0, from |-> {}, n |-> 0]
ProdIdle == [busy |-> FALSE, dep |-> 0, lines |-> <<>>, k |-> 0]

\* The start of the process in a fresh directory: load_q_table finds no
\* file and returns the empty table.
Init ==
    /\ pc = "loop" /\ wret = "boot" /\ clock = 0
    /\ initial_sequence_complete = FALSE
    /\ action_to_perform = ""
    /\ current_state = None /\ reward = 0 /\ current_state_key = InvalidKey
    /\ last_state_key = None /\ last_action = None /\ steps = 0
    /\ q_table = EmptyDict /\ EPSILON = EPSILON_START
    /\ fs = [p \in Paths |-> Absent]
    /\ prod = ProdIdle /\ depCount = 0
    /\ readSnap = Absent /\ procPrev = 0 /\ procCur = 0
    /\ nProc = 0 /\ nUpd = 0 /\ nPub = 0
    /\ prevAct = "" /\ writeFailed = FALSE /\ lastRenamed = None
    /\ qcall = NoQCall

\* ------------------------------------------------------------ the producer
\* The files the external game process deposits: a well-formed one, one
\* whose second value is no number, and one with no state field at all.
Observations ==
    { <<Line("screen_id", "int", 1), Line("reward", "int", 10)>>,
      <<Line("is_dead", "int", 1), Line("screen_id", "bad", 0)>>,
      <<NoColonLine, Line("reward", "frac", 0)>> }

\* The producer opens state.txt for writing, which creates or empties it,
\* and writes the first line.
P_Open ==
    /\ ~prod.busy /\ depCount < MaxDeposits
    /\ \E obs \in Observations :
          /\ prod' = [busy |-> TRUE, dep |-> depCount + 1, lines |-> obs, k |-> 1]
          /\ fs' = [fs EXCEPT ![STATE_FILE] = StateContent(depCount + 1, SubSeq(obs, 1, 1))]
    /\ depCount' = depCount + 1
    /\ UNCHANGED <<agentVars, learnVars, clock, histVars, qcall>>

\* It writes the next line, the last one closing the file.  A file the
\* agent removed meanwhile stays removed: the line goes to the unlinked file.
P_Write ==
    /\ prod.busy
    /\ LET k == prod.k + 1
           mine == fs[STATE_FILE].kind = "state" /\ fs[STATE_FILE].dep = prod.dep
       IN  /\ prod' = IF k = Len(prod.lines) THEN ProdIdle ELSE [prod EXCEPT !.k = k]
           /\ fs' = IF mine
                    THEN [fs EXCEPT ![STATE_FILE] =
                             StateContent(prod.dep, SubSeq(prod.lines, 1, k))]
                    ELSE fs
    /\ UNCHANGED <<agentVars, learnVars, clock, depCount, histVars, qcall>>

\* Time passes start_time + 2 s, then start_time + 4 s.
Tick ==
    /\ clock < 2
    /\ clock' = clock + 1
    /\ UNCHANGED <<agentVars, learnVars, prod, depCount, histVars, fs, qcall>>

\* ------------------------------------------------- write_action_to_file
\* Entering the call: the loop hands over the action and who gets control back.
CallWrite(action, from) ==
    /\ action_to_perform' = action
    /\ wret' = from
    /\ pc' = "w_open"
    /\ prevAct' = action_to_perform

\* Leaving it, normally or through the except clause: the bootstrap tick
\* sleeps and continues, the learning tick goes on to remember its action.
WriteReturnsTo == IF wret = "boot" THEN "loop" ELSE "remember"
WriteDone ==
    /\ pc' = WriteReturnsTo
    /\ nPub' = IF wret = "learn" THEN nPub + 1 ELSE nPub

\* An error of the file operation at place `at` in write_action_to_file:
\* the try block covers the whole body, so the except clause prints the
\* error and the call returns.
WriteErrorFallsThrough(at) ==
    /\ writeFailed' = TRUE
    /\ IF at \in {"w_open", "w_write"}
       THEN pc' = "w_exists" /\ UNCHANGED nPub
       ELSE WriteDone
WriteError(at) ==
    /\ WriteDone
    /\ writeFailed' = TRUE

\* open(ACTION_FILE_TMP, 'w') creates the file or empties it.
W_Open ==
    /\ pc = "w_open"
    /\ fs' = [fs EXCEPT ![ACTION_FILE_TMP] = ActionContent(action_to_perform, FALSE)]
    /\ pc' = "w_write"
    /\ UNCHANGED <<wret, action_to_perform, loopVars, learnVars, envVars, histVars, qcall>>

W_OpenFails ==
    /\ pc = "w_open"
    /\ WriteError("w_open")
    /\ UNCHANGED <<wret, action_to_perform, loopVars, learnVars, envVars, readHist,
                   prevAct, lastRenamed, fs, qcall>>

\* f.write(action) and the close of the with block: the whole token is in the file.
W_Write ==
    /\ pc = "w_write"
    /\ fs' = [fs EXCEPT ![ACTION_FILE_TMP] = ActionContent(action_to_perform, TRUE)]
    /\ pc' = "w_exists"
    /\ UNCHANGED <<wret, action_to_perform, loopVars, learnVars, envVars, histVars, qcall>>

\* The write or the flush fails: a prefix of the token is in the file.
W_WriteFails ==
    /\ pc = "w_write"
    /\ WriteError("w_write")
    /\ UNCHANGED <<wret, action_to_perform, loopVars, learnVars, envVars, readHist,
                   prevAct, lastRenamed, fs, qcall>>

\* if os.path.exists(ACTION_FILE)
W_Exists ==
    /\ pc = "w_exists"
    /\ pc' = IF Exists(fs, ACTION_FILE) THEN "w_remove" ELSE "w_rename"
    /\ UNCHANGED <<wret, action_to_perform, loopVars, learnVars, envVars, histVars, fs,
                   qcall>>

\* os.remove(ACTION_FILE)
W_Remove ==
    /\ pc = "w_remove"
    /\ Exists(fs, ACTION_FILE)
    /\ fs' = [fs EXCEPT ![ACTION_FILE] = Absent]
    /\ pc' = "w_rename"
    /\ UNCHANGED <<wret, action_to_perform, loopVars, learnVars, envVars, histVars, qcall>>

W_RemoveFails ==
    /\ pc = "w_remove"
    /\ WriteError("w_remove")
    /\ UNCHANGED <<wret, action_to_perform, loopVars, learnVars, envVars, readHist,
                   prevAct, lastRenamed, fs, qcall>>

\* os.rename(src, dst); renaming a file to itself does nothing.
Rename(fsys, src, dst) ==
    IF src = dst THEN fsys
    ELSE [fsys EXCEPT ![dst] = fsys[src], ![src] = Absent]

\* os.rename(ACTION_FILE_TMP, ACTION_FILE)
W_Rename ==
    /\ pc = "w_rename"
    /\ Exists(fs, ACTION_FILE_TMP)
    /\ fs' = Rename(fs, ACTION_FILE_TMP, ACTION_FILE)
    /\ lastRenamed' = Some(action_to_perform)
    /\ WriteDone
    /\ UNCHANGED <<wret, action_to_perform, loopVars, learnVars, envVars, readHist,
                   prevAct, writeFailed, qcall>>

W_RenameFails ==
    /\ pc = "w_rename"
    /\ WriteError("w_rename")
    /\ UNCHANGED <<wret, action_to_perform, loopVars, learnVars, envVars, readHist,
                   prevAct, lastRenamed, fs, qcall>>

\* ------------------------------------------------------ the bootstrap tick
\* The scripted action for the elapsed time; past 4 s the sequence is over.
BootstrapActionSwapped(t) == IF t = 0 THEN "RIGHT" ELSE IF t = 1 THEN "LEFT" ELSE "NONE"
BootstrapAction(t) == IF t = 0 THEN "LEFT" ELSE IF t = 1 THEN "RIGHT" ELSE "NONE"

A_Boot ==
    /\ pc = "loop" /\ ~initial_sequence_complete
    /\ initial_sequence_complete' = (clock = 2)
    /\ CallWrite(BootstrapAction(clock), "boot")
    /\ UNCHANGED <<current_state, reward, current_state_key, last_state_key,
                   last_action, steps, learnVars, envVars, readHist, nPub, writeFailed,
                   lastRenamed, fs, qcall>>

\* --------------------------------------------------- read_state_from_file
\* The call returns (None, None); the tick has nothing to learn from and sleeps.
ReturnNoneDecides ==
    /\ current_state' = None
    /\ reward' = 0
    /\ pc' = "choose"
ReturnNone ==
    /\ current_state' = None
    /\ reward' = 0
    /\ pc' = "loop"

readFrame == <<wret, action_to_perform, initial_sequence_complete, current_state_key,
               last_state_key, last_action, steps, learnVars, envVars, procPrev,
               procCur, nProc, nUpd, nPub, prevAct, writeFailed, lastRenamed, qcall>>

\* if not os.path.exists(STATE_FILE): return None, None
R_Absent ==
    /\ pc = "loop" /\ initial_sequence_complete
    /\ ~Exists(fs, STATE_FILE)
    /\ ReturnNone
    /\ readSnap' = Absent
    /\ UNCHANGED <<readFrame, fs>>

\* The file exists: the call sleeps 10 ms before it opens it.
R_Exists ==
    /\ pc = "loop" /\ initial_sequence_complete
    /\ Exists(fs, STATE_FILE)
    /\ pc' = "r_open"
    /\ readSnap' = Absent
    /\ UNCHANGED <<readFrame, current_state, reward, fs>>

\* The with block reads the lines the file holds at that moment, and every
\* value parses: state and reward are set, the file is about to be removed.
R_Read ==
    /\ pc = "r_open"
    /\ Exists(fs, STATE_FILE)
    /\ LET res == ParseLines(fs[STATE_FILE].lines)
       IN  /\ ~res.err
           /\ current_state' = Some(res.state)
           /\ reward' = res.reward
    /\ readSnap' = fs[STATE_FILE]
    /\ pc' = "r_remove"
    /\ UNCHANGED <<readFrame, fs>>

\* A value does not parse: float() or int() raises ValueError inside the
\* try, and the except clause returns (None, None).
R_ReadMalformed ==
    /\ pc = "r_open"
    /\ Exists(fs, STATE_FILE)
    /\ ParseLines(fs[STATE_FILE].lines).err
    /\ readSnap' = fs[STATE_FILE]
    /\ ReturnNone
    /\ UNCHANGED <<readFrame, fs>>

\* open() or the read raises IOError.
R_OpenFails ==
    /\ pc = "r_open"
    /\ ReturnNone
    /\ UNCHANGED <<readFrame, readSnap, fs>>

\* The directory after os.remove(STATE_FILE).
RemoveStateKept(fsys) == fsys
RemoveState(fsys) == [fsys EXCEPT ![STATE_FILE] = Absent]

\* os.remove(STATE_FILE), then return state, reward; the loop goes on to
\* learn when the state dict is not empty (if current_state:).
R_Remove ==
    /\ pc = "r_remove"
    /\ Exists(fs, STATE_FILE)
    /\ fs' = RemoveState(fs)
    /\ pc' = IF current_state # Some(EmptyDict) THEN "learn" ELSE "loop"
    /\ UNCHANGED <<readFrame, readSnap, current_state, reward>>

R_RemoveFails ==
    /\ pc = "r_remove"
    /\ ReturnNone
    /\ UNCHANGED <<readFrame, readSnap, fs>>

\* -------------------------------------------------------- the learning tick
\* get_simplified_state, then update_q_table when a previous state and
\* action are remembered.
HasPreviousNever(lsk, la) == FALSE
HasPrevious(lsk, la) == lsk # None /\ la # None

A_Update ==
    /\ pc = "learn"
    /\ LET key == get_simplified_state(current_state[1])
           learns == HasPrevious(last_state_key, last_action)
       IN  /\ current_state_key' = key
           /\ q_table' = IF learns
                         THEN update_q_table(q_table, last_state_key[1], last_action[1],
                                             reward, key)
                         ELSE q_table
           /\ nUpd' = IF learns THEN nUpd + 1 ELSE nUpd
           /\ qcall' = IF learns
                       THEN [fn |-> "update", key |-> last_state_key[1], nkey |-> key,
                             act |-> last_action[1], reward |-> reward,
                             before |-> q_table, eps |-> EPSILON, from |-> {}, n |-> 0]
                       ELSE qcall
    /\ procPrev' = procCur
    /\ procCur' = readSnap.dep
    /\ nProc' = nProc + 1
    /\ pc' = "choose"
    /\ UNCHANGED <<wret, action_to_perform, initial_sequence_complete, current_state,
                   reward, last_state_key, last_action, steps, EPSILON, envVars,
                   readSnap, nPub, prevAct, writeFailed, lastRenamed, fs>>

\* choose_action(state_key, q_table) returning action through its
\* exploration branch: random.choice(POSSIBLE_ACTIONS).
ChooseExplore(state_key, action) ==
    /\ CanExplore(EPSILON)
    /\ action \in Actions
    /\ q_table' = EnsureRow(q_table, state_key)
    /\ EPSILON' = DecayEpsilon(EPSILON)

\* ... and through its exploitation branch: random.choice(best_actions).
ChooseExploit(state_key, action) ==
    /\ CanExploit(EPSILON)
    /\ q_table' = EnsureRow(q_table, state_key)
    /\ action \in BestActions(q_table'[state_key])
    /\ EPSILON' = DecayEpsilon(EPSILON)

chooseFrame == <<initial_sequence_complete, current_state, reward, current_state_key,
                 last_state_key, last_action, steps, envVars, readHist, nPub,
                 writeFailed, lastRenamed, fs, qcall>>

A_ChooseExplore ==
    /\ pc = "choose"
    /\ \E action \in Actions :
          /\ ChooseExplore(current_state_key, action)
          /\ CallWrite(action, "learn")
    /\ UNCHANGED chooseFrame

A_ChooseExploit ==
    /\ pc = "choose"
    /\ \E action \in Actions :
          /\ ChooseExploit(current_state_key, action)
          /\ CallWrite(action, "learn")
    /\ UNCHANGED chooseFrame

\* Remember the state and the action, count the step; every SAVE_EVERY
\* steps the tick saves the table before it sleeps.
A_Remember ==
    /\ pc = "remember"
    /\ last_state_key' = Some(current_state_key)
    /\ last_action' = Some(action_to_perform)
    /\ steps' = steps + 1
    /\ pc' = IF (steps + 1) % SAVE_EVERY = 0 THEN "save_open" ELSE "loop"
    /\ UNCHANGED <<wret, action_to_perform, initial_sequence_complete, current_state,
                   reward, current_state_key, learnVars, envVars, histVars, fs, qcall>>

\* ------------------------------------------------------------ save_q_table
\* open(Q_TABLE_FILE, 'w') empties the file; json.dump fills it.  Nothing
\* catches an error here: it ends the process.
S_Open ==
    /\ pc = "save_open"
    /\ fs' = [fs EXCEPT ![Q_TABLE_FILE] = TableContent(EmptyDict, FALSE)]
    /\ pc' = "save_dump"
    /\ UNCHANGED <<wret, action_to_perform, loopVars, learnVars, envVars, histVars, qcall>>

S_OpenFails ==
    /\ pc = "save_open"
    /\ pc' = "terminated"
    /\ UNCHANGED <<wret, action_to_perform, loopVars, learnVars, envVars, histVars, fs,
                   qcall>>

S_Dump ==
    /\ pc = "save_dump"
    /\ fs' = [fs EXCEPT ![Q_TABLE_FILE] = TableContent(q_table, TRUE)]
    /\ pc' = "loop"
    /\ UNCHANGED <<wret, action_to_perform, loopVars, learnVars, envVars, histVars, qcall>>

S_DumpFails ==
    /\ pc = "save_dump"
    /\ pc' = "terminated"
    /\ UNCHANGED <<wret, action_to_perform, loopVars, learnVars, envVars, histVars, fs,
                   qcall>>

\* ------------------------------------------------- termination and restart
\* The process state of a process that has just run lines 169-176 with the
\* table load_q_table returned, or that is not running: nothing of the
\* earlier process's memory is left.
FreshProcess(at, table) ==
    /\ pc' = at /\ wret' = "boot"
    /\ action_to_perform' = ""
    /\ initial_sequence_complete' = FALSE
    /\ current_state' = None /\ reward' = 0 /\ current_state_key' = InvalidKey
    /\ last_state_key' = None /\ last_action' = None /\ steps' = 0
    /\ q_table' = table /\ EPSILON' = EPSILON_START

Running == pc \notin {"killed", "terminated", "started", "start_failed"}

\* The process is terminated from outside, wherever it is: the files stay
\* as they are at that moment.
Kill ==
    /\ Running
    /\ FreshProcess("killed", EmptyDict)
    /\ UNCHANGED <<envVars, histVars, fs, qcall>>

\* A later start: load_q_table finds no file and returns {}.  The model
\* follows the new process to the end of its start-up.
L_NoFile ==
    /\ pc \in {"killed", "terminated"}
    /\ ~Exists(fs, Q_TABLE_FILE)
    /\ FreshProcess("started", EmptyDict)
    /\ clock' = 0
    /\ UNCHANGED <<prod, depCount, histVars, fs, qcall>>

\* It finds a file that holds a whole dump: json.load returns that table.
L_Load ==
    /\ pc \in {"killed", "terminated"}
    /\ Exists(fs, Q_TABLE_FILE) /\ fs[Q_TABLE_FILE].full
    /\ FreshProcess("started", fs[Q_TABLE_FILE].tab)
    /\ clock' = 0
    /\ UNCHANGED <<prod, depCount, histVars, fs, qcall>>

\* It finds a file that holds a strict prefix of a dump (possibly nothing):
\* json.load raises JSONDecodeError, which nothing catches.
L_LoadFails ==
    /\ pc \in {"killed", "terminated"}
    /\ Exists(fs, Q_TABLE_FILE) /\ ~fs[Q_TABLE_FILE].full
    /\ FreshProcess("start_failed", EmptyDict)
    /\ clock' = 0
    /\ UNCHANGED <<prod, depCount, histVars, fs, qcall>>

\* ----------------------------------------------------------- specifications
\* The agent beside a producer that deposits up to MaxDeposits files, with
\* every file operation of the loop free to fail.  These runs end long
\* before the first save of the table.
Next ==
    \/ Tick \/ P_Open \/ P_Write
    \/ A_Boot
    \/ W_Open \/ W_OpenFails \/ W_Write \/ W_WriteFails \/ W_Exists
    \/ W_Remove \/ W_RemoveFails \/ W_Rename \/ W_RenameFails
    \/ R_Absent \/ R_Exists \/ R_Read \/ R_ReadMalformed \/ R_OpenFails
    \/ R_Remove \/ R_RemoveFails
    \/ A_Update \/ A_ChooseExplore \/ A_ChooseExploit \/ A_Remember

Spec == Init /\ [][Next]_vars

\* The same agent and producer when no file operation fails and the agent
\* keeps being scheduled: whenever the agent can take a step, it
\* eventually takes one (its waits are sleeps of 10 and 50 ms).
AgentStep ==
    \/ A_Boot
    \/ W_Open \/ W_Write \/ W_Exists \/ W_Remove \/ W_Rename
    \/ R_Absent \/ R_Exists \/ R_Read \/ R_ReadMalformed \/ R_Remove
    \/ A_Update \/ A_ChooseExplore \/ A_ChooseExploit \/ A_Remember

NextLive == Tick \/ P_Open \/ P_Write \/ AgentStep

SpecLive == Init /\ [][NextLive]_vars /\ WF_vars(AgentStep)

\* A long quiet run, up to the first save of the table: the producer
\* deposits one whole well-formed file with reward 0 whenever state.txt is
\* missing, and no file operation fails before save_q_table's own.  The
\* process can be terminated at any point and started again.
SteadyObservation == <<Line("screen_id", "int", 1), Line("reward", "int", 0)>>

P_DepositWhole ==
    /\ ~Exists(fs, STATE_FILE) /\ depCount < SAVE_EVERY
    /\ depCount' = depCount + 1
    /\ fs' = [fs EXCEPT ![STATE_FILE] = StateContent(depCount + 1, SteadyObservation)]
    /\ UNCHANGED <<agentVars, learnVars, clock, prod, histVars, qcall>>

NextSave ==
    \/ Tick \/ P_DepositWhole
    \/ A_Boot
    \/ W_Open \/ W_Write \/ W_Exists \/ W_Remove \/ W_Rename
    \/ R_Absent \/ R_Exists \/ R_Read \/ R_Remove
    \/ A_Update \/ A_ChooseExplore \/ A_ChooseExploit \/ A_Remember
    \/ S_Open \/ S_OpenFails \/ S_Dump \/ S_DumpFails
    \/ Kill \/ L_NoFile \/ L_Load \/ L_LoadFails

SpecSave == Init /\ [][NextSave]_vars

\* The two functions on their own: any sequence of up to MaxCalls calls of
\* update_q_table and choose_action, on any keys, actions and rewards of
\* the sets below, from the empty table and an exploration rate of 0, 0.5 or 1.
Keys == {<<1, 1, 0, 0>>, <<1, 0, 1, 0>>}
Rewards == {0, 10 * QScale, -10 * QScale}
EpsilonInputs == {0, EpsScale \div 2, EPSILON_START}

InitQ ==
    /\ pc = "pure" /\ wret = "boot" /\ clock = 0
    /\ initial_sequence_complete = FALSE
    /\ action_to_perform = ""
    /\ current_state = None /\ reward = 0 /\ current_state_key = InvalidKey
    /\ last_state_key = None /\ last_action = None /\ steps = 0
    /\ q_table = EmptyDict /\ EPSILON \in EpsilonInputs
    /\ fs = [p \in Paths |-> Absent]
    /\ prod = ProdIdle /\ depCount = 0
    /\ readSnap = Absent /\ procPrev = 0 /\ procCur = 0
    /\ nProc = 0 /\ nUpd = 0 /\ nPub = 0
    /\ prevAct = "" /\ writeFailed = FALSE /\ lastRenamed = None
    /\ qcall = NoQCall

pureFrame == <<agentVars, envVars, histVars, fs>>

Q_Update ==
    /\ qcall.n < MaxCalls
    /\ \E key \in Keys, nkey \in Keys, action \in Actions, r \in Rewards :
          /\ q_table' = update_q_table(q_table, key, action, r, nkey)
          /\ qcall' = [fn |-> "update", key |-> key, nkey |-> nkey, act |-> action,
                       reward |-> r, before |-> q_table, eps |-> EPSILON, from |-> {},
                       n |-> qcall.n + 1]
    /\ UNCHANGED <<EPSILON, pureFrame>>

Q_Explore(key, action) ==
    /\ qcall.n < MaxCalls
    /\ ChooseExplore(key, action)
    /\ qcall' = [fn |-> "explore", key |-> key, nkey |-> key, act |-> action,
                 reward |-> 0, before |-> q_table, eps |-> EPSILON, from |-> Actions,
                 n |-> qcall.n + 1]
    /\ UNCHANGED pureFrame

Q_Exploit(key, action) ==
    /\ qcall.n < MaxCalls
    /\ ChooseExploit(key, action)
    /\ qcall' = [fn |-> "exploit", key |-> key, nkey |-> key, act |-> action,
                 reward |-> 0, before |-> q_table, eps |-> EPSILON,
                 from |-> BestActions(q_table'[key]), n |-> qcall.n + 1]
    /\ UNCHANGED pureFrame

Q_ChooseExplore == \E key \in Keys, action \in Actions : Q_Explore(key, action)
Q_ChooseExploit == \E key \in Keys, action \in Actions : Q_Exploit(key, action)

NextQ == Q_Update \/ Q_ChooseExplore \/ Q_ChooseExploit

SpecQ == InitQ /\ [][NextQ]_vars

\* The exploration rate over a long run: choose_action called again and
\* again from the start of the process, on one state key, until the rate
\* no longer changes.  The action a call returns is not kept.
DecisionKey == <<1, 1, 0, 0>>

InitDecay ==
    /\ pc = "decide" /\ wret = "boot" /\ clock = 0
    /\ initial_sequence_complete = FALSE
    /\ action_to_perform = ""
    /\ current_state = None /\ reward = 0 /\ current_state_key = InvalidKey
    /\ last_state_key = None /\ last_action = None /\ steps = 0
    /\ q_table = EmptyDict /\ EPSILON = EPSILON_START
    /\ fs = [p \in Paths |-> Absent]
    /\ prod = ProdIdle /\ depCount = 0
    /\ readSnap = Absent /\ procPrev = 0 /\ procCur = 0
    /\ nProc = 0 /\ nUpd = 0 /\ nPub = 0
    /\ prevAct = "" /\ writeFailed = FALSE /\ lastRenamed = None
    /\ qcall = NoQCall

D_ChooseExplore ==
    /\ pc = "decide"
    /\ \E action \in Actions : ChooseExplore(DecisionKey, action)
    /\ UNCHANGED <<pureFrame, qcall>>

D_ChooseExploit ==
    /\ pc = "decide"
    /\ \E action \in Actions : ChooseExploit(DecisionKey, action)
    /\ UNCHANGED <<pureFrame, qcall>>

NextDecay == D_ChooseExplore \/ D_ChooseExploit

SpecDecay == InitDecay /\ [][NextDecay]_vars

\* get_simplified_state on its own: called on any observation that has at
\* least one of four fields, each with one of four integer values.
ObsFields == {"screen_id", "is_dead", "has_hammer", "mario_x"}
ObsValues == {-1, 0, 1, 10}
ObsDicts == UNION {[F -> ObsValues] : F \in (SUBSET ObsFields) \ {{}}}

InitKey ==
    /\ pc = "abstract" /\ wret = "boot" /\ clock = 0
    /\ initial_sequence_complete = FALSE
    /\ action_to_perform = ""
    /\ current_state = None /\ reward = 0 /\ current_state_key = InvalidKey
    /\ last_state_key = None /\ last_action = None /\ steps = 0
    /\ q_table = EmptyDict /\ EPSILON = EPSILON_START
    /\ fs = [p \in Paths |-> Absent]
    /\ prod = ProdIdle /\ depCount = 0
    /\ readSnap = Absent /\ procPrev = 0 /\ procCur = 0
    /\ nProc = 0 /\ nUpd = 0 /\ nPub = 0
    /\ prevAct = "" /\ writeFailed = FALSE /\ lastRenamed = None
    /\ qcall = NoQCall

K_Abstract ==
    /\ pc = "abstract"
    /\ \E d \in ObsDicts :
          /\ current_state' = Some(d)
          /\ current_state_key' = get_simplified_state(d)
    /\ UNCHANGED <<pc, wret, action_to_perform, initial_sequence_complete, reward,
                   last_state_key, last_action, steps, learnVars, envVars, histVars,
                   fs, qcall>>

NextKey == K_Abstract

SpecKey == InitKey /\ [][NextKey]_vars

\* ------------------------------------------------------------------ claims
\* C1: whoever looks at action.txt, at any moment, finds no file or a file
\* that holds one whole action name of the enumeration: no partly written
\* token is ever at the final path.
C1_WholeActionOrNoFile ==
    \/ fs[ACTION_FILE] = Absent
    \/ /\ fs[ACTION_FILE].kind = "action"
       /\ fs[ACTION_FILE].full
       /\ fs[ACTION_FILE].tok \in Actions

\* C1's case: a learning-phase call has opened the temporary file and not
\* yet written the token, while action.txt still shows the previous action.
C1_Witness ==
    /\ pc = "w_write" /\ wret = "learn"
    /\ fs[ACTION_FILE_TMP] = ActionContent(action_to_perform, FALSE)
    /\ Exists(fs, ACTION_FILE)
    /\ fs[ACTION_FILE].tok # action_to_perform

\* C2 as stated: whenever action.txt exists its content is the action of
\* the most recent call of write_action_to_file or of the call before it,
\* also when file operations of these calls failed.
C2_LatestOrPrevious ==
    Exists(fs, ACTION_FILE) => fs[ACTION_FILE].tok \in {action_to_perform, prevAct}

\* C2 amended: whenever action.txt exists its content is the action of the
\* most recent call whose rename succeeded; as long as no file operation of
\* write_action_to_file has failed, that is the most recent call or the one
\* before it.
C2_LastRenamed ==
    Exists(fs, ACTION_FILE) =>
        /\ lastRenamed = Some(fs[ACTION_FILE].tok)
        /\ ~writeFailed => fs[ACTION_FILE].tok \in {action_to_perform, prevAct}

\* C2's case: after failed calls action.txt shows an action older than the
\* last two calls.
C2_Witness ==
    /\ writeFailed
    /\ Exists(fs, ACTION_FILE)
    /\ fs[ACTION_FILE].tok \notin {action_to_perform, prevAct}
    /\ pc = "loop"

\* C3: when read_state_from_file has read a malformed file and returned no
\* observation, that file is gone from state.txt.
C3_MalformedFileRemoved ==
    (pc = "loop" /\ readSnap.kind = "state" /\ ParseLines(readSnap.lines).err)
        => fs[STATE_FILE] # readSnap

\* C5 as stated: the observations the agent processes are the producer's
\* deposits, one after the other: the k-th processed one is the k-th
\* deposit, and at each poll every processed one has had its publication.
C5_ProcessedAreTheDeposits ==
    /\ procCur = nProc
    /\ pc = "loop" => nPub = nProc

\* C5 amended: the observations the agent processes come from the producer's
\* deposits in deposit order, each deposit at most once, and when the agent
\* polls again every processed observation has had its update (all but the
\* first) and its call of write_action_to_file; deposits may be skipped.
C5_InDepositOrder ==
    /\ nProc <= depCount
    /\ nProc >= 1 => (procPrev < procCur /\ procCur <= depCount)
    /\ pc \in {"loop", "r_open", "r_remove"} =>
          /\ nPub = nProc
          /\ nUpd = (IF nProc = 0 THEN 0 ELSE nProc - 1)

\* C5's case: two observations processed, the second poll about to start.
C5_Witness ==
    /\ nProc = 2 /\ procPrev = 1 /\ procCur = 2
    /\ pc = "loop"

\* C6: the agent removes state.txt only while it holds the deposit it read:
\* no deposit placed between its read and its remove is deleted unread.
C6_NoUnreadDelete ==
    [][(pc = "r_remove" /\ Exists(fs, STATE_FILE) /\ fs'[STATE_FILE] = Absent)
          => fs[STATE_FILE].dep = readSnap.dep]_vars

\* C4: no failure of a file operation of the loop ends the agent.
C4_NeverTerminated == pc # "terminated"

\* What a call of update_q_table found: the value of its cell and the
\* maximum of the next key's row, each 0 when the row was not there.
OldBefore == IF qcall.key \in DOMAIN qcall.before
             THEN qcall.before[qcall.key][qcall.act] ELSE 0
MaxBefore == IF qcall.nkey \in DOMAIN qcall.before
             THEN CHOOSE m \in {qcall.before[qcall.nkey][a] : a \in Actions} :
                     \A a \in Actions : qcall.before[qcall.nkey][a] <= m
             ELSE 0

\* C7: from the empty table, after any calls of choose_action and
\* update_q_table, every key of the table maps exactly the actions of the
\* enumeration; a key the last call created holds 0 everywhere but in the
\* one cell that call's update wrote, and a call creates no key but its own.
C7_RowsFullyPopulated ==
    /\ \A k \in DOMAIN q_table : DOMAIN q_table[k] = Actions
    /\ qcall.fn # "none" =>
          /\ DOMAIN q_table = DOMAIN qcall.before \cup {qcall.key, qcall.nkey}
          /\ \A k \in DOMAIN q_table \ DOMAIN qcall.before : \A a \in Actions :
                \/ qcall.fn = "update" /\ k = qcall.key /\ a = qcall.act
                \/ q_table[k][a] = 0

\* C7's case: an update has just created both of its rows.
C7_Witness ==
    /\ qcall.fn = "update" /\ qcall.key # qcall.nkey
    /\ qcall.before = EmptyDict
    /\ q_table[qcall.key][qcall.act] # 0

\* C8: update_q_table changes the cell (prev_key, action) and no other cell
\* that was there before the call.
C8_OnlyOneCellChanges ==
    qcall.fn = "update" =>
        \A k \in DOMAIN qcall.before : \A a \in DOMAIN qcall.before[k] :
            (k # qcall.key \/ a # qcall.act) =>
                (k \in DOMAIN q_table /\ a \in DOMAIN q_table[k]
                    /\ q_table[k][a] = qcall.before[k][a])

\* C8's case: prev_key = next_key, the row was there with a value in
\* another cell, and the call changed its own cell.
C8_Witness ==
    /\ qcall.fn = "update" /\ qcall.key = qcall.nkey
    /\ qcall.key \in DOMAIN qcall.before
    /\ \E a \in Actions : a # qcall.act /\ qcall.before[qcall.key][a] # 0
    /\ q_table[qcall.key][qcall.act] # qcall.before[qcall.key][qcall.act]

\* C9: the value update_q_table writes is old + 0.1 * (reward + 0.95 * M - old),
\* old and M read from the table as it was before the call (0 for a new
\* row); the model's divisions by 20 and by 10 are exact; and old = 0,
\* reward = 10, M = 0 give 1.
C9_WrittenValue ==
    qcall.fn = "update" =>
        LET gain == qcall.reward + (MaxBefore \div 20) * 19 - OldBefore
            new == q_table[qcall.key][qcall.act]
        IN  /\ MaxBefore % 20 = 0
            /\ gain % 10 = 0
            /\ new = OldBefore + gain \div 10
            /\ (OldBefore = 0 /\ qcall.reward = 10 * QScale /\ MaxBefore = 0)
                   => new = 1 * QScale

\* C9's case: an update whose next key is another row with a positive maximum.
C9_Witness ==
    /\ qcall.fn = "update" /\ qcall.key # qcall.nkey
    /\ qcall.reward = 10 * QScale
    /\ MaxBefore > 0
    /\ OldBefore = 0

\* C10: choose_action returns an action of the enumeration; at exploration
\* rate 0 it exploits; exploiting, it returns a maximiser of the state's row
\* (the maximiser, when there is one), and for every key the actions it can
\* return by exploiting, at any exploration rate below 1, are exactly the
\* maximisers of the row: each tied action and no other.
IsMaximiser(row, a) == \A b \in Actions : row[b] <= row[a]
C10_ChoosesAMaximiser ==
    /\ qcall.fn \in {"explore", "exploit"} =>
          /\ qcall.act \in Actions
          /\ qcall.eps = 0 => qcall.fn = "exploit"
          /\ qcall.fn = "exploit" =>
                /\ IsMaximiser(q_table[qcall.key], qcall.act)
                /\ qcall.from = {a \in Actions : IsMaximiser(q_table[qcall.key], a)}
    /\ qcall.n < MaxCalls =>
          \A key \in Keys : \A a \in Actions :
              (ENABLED Q_Exploit(key, a))
                  <=> (EPSILON < EpsScale /\ IsMaximiser(EnsureRow(q_table, key)[key], a))

\* C10's case: at exploration rate 0 a row with one maximum, and the call
\* returned it.
C10_Witness ==
    /\ qcall.fn = "exploit" /\ qcall.eps = 0
    /\ qcall.key \in DOMAIN qcall.before
    /\ \A a \in Actions : a # qcall.act => q_table[qcall.key][a] < q_table[qcall.key][qcall.act]

\* C11: the exploration rate never increases and no step but a call of
\* choose_action changes it (no bootstrap tick, no tick without an
\* observation, no update, no file operation); a call made while the rate
\* is above MIN_EPSILON takes one ten-thousandth off it (to the nearest
\* unit of the model), once, and a call made at or below MIN_EPSILON leaves it as it is.
C11_DecaysOncePerCall ==
    [][LET call == (pc = "choose" /\ pc' = "w_open") \/ pc = "decide"
           lost == EPSILON - EPSILON'
       IN  /\ EPSILON' <= EPSILON
           /\ ~call => EPSILON' = EPSILON
           /\ call => IF EPSILON > MIN_EPSILON
                      THEN /\ EPSILON - EPSILON_DECAY_DEN \div 2 <= lost * EPSILON_DECAY_DEN
                           /\ lost * EPSILON_DECAY_DEN <= EPSILON + EPSILON_DECAY_DEN \div 2
                      ELSE EPSILON' = EPSILON]_vars

\* C11's case: two decisions have decayed the rate twice, and a tick that
\* found no observation has followed them.
C11_Witness ==
    /\ nProc = 2 /\ pc = "loop"
    /\ readSnap = Absent /\ current_state = None
    /\ EPSILON < EPSILON_START - EPSILON_START \div EPSILON_DECAY_DEN

\* The bootstrap phase: the initial sequence is not complete, or its last
\* tick is still inside its call of write_action_to_file.
InBootstrap ==
    \/ ~initial_sequence_complete
    \/ wret = "boot" /\ pc \in {"w_open", "w_write", "w_exists", "w_remove", "w_rename"}

\* C12: in the bootstrap phase no step of the agent reads or removes
\* state.txt (only the producer changes it), and none changes the value
\* table, the exploration rate or the remembered state key and action,
\* whatever the producer deposits meanwhile; and while less than 2 s have
\* elapsed action.txt is missing or holds LEFT.
C12_BootstrapReadsNothing ==
    [][InBootstrap =>
          /\ UNCHANGED <<q_table, EPSILON, last_state_key, last_action, readSnap>>
          /\ pc' \notin {"r_open", "r_remove", "learn", "choose", "remember"}
          /\ fs'[STATE_FILE] # fs[STATE_FILE] => (depCount' # depCount \/ prod' # prod)
          /\ (clock' = 0 /\ Exists(fs', ACTION_FILE)) => fs'[ACTION_FILE].tok = "LEFT"]_vars

\* C12's case: within the first 2 s the producer has deposited a whole
\* observation, and the agent has published LEFT and is at the top of its
\* loop with the file still there.
C12_Witness ==
    /\ ~initial_sequence_complete /\ clock = 0 /\ pc = "loop"
    /\ fs[ACTION_FILE] = ActionContent("LEFT", TRUE)
    /\ fs[STATE_FILE].kind = "state" /\ Len(fs[STATE_FILE].lines) = 2
    /\ ~prod.busy

\* C13: a start after a termination succeeds, and the table load_q_table
\* returns is the empty table when there is no file, and otherwise the
\* table a completed save_q_table call wrote.
C13_RestartLoadsSavedTable ==
    /\ pc # "start_failed"
    /\ pc = "started" =>
          IF Exists(fs, Q_TABLE_FILE)
          THEN fs[Q_TABLE_FILE].full /\ q_table = fs[Q_TABLE_FILE].tab
          ELSE q_table = EmptyDict

\* Two observations agree on the three fields of the abstraction, a missing
\* field counting as 0.
Agree(d1, d2) ==
    \A f \in {"screen_id", "is_dead", "has_hammer"} : DictGet(d1, f, 0) = DictGet(d2, f, 0)

InWrite == pc \in {"w_open", "w_write", "w_exists", "w_remove", "w_rename"}
C15_ConsumedIsAnswered ==
    [][/\ (pc = "r_remove" /\ Exists(fs, STATE_FILE) /\ ~Exists(fs', STATE_FILE))
            => pc' = "learn"
       /\ (pc = "learn" /\ pc' # pc) => pc' = "choose"
       /\ (pc = "choose" /\ pc' # pc) => (pc' = "w_open" /\ wret' = "learn")
       /\ (InWrite /\ wret = "learn" /\ ~InWrite')
            => /\ pc' = "remember"
               /\ fs'[ACTION_FILE] = ActionContent(action_to_perform, TRUE)
       /\ (pc = "remember" /\ pc' # pc)
            => /\ last_state_key' = Some(current_state_key)
               /\ last_action' = Some(action_to_perform)
               /\ pc' \in {"loop", "save_open"}]_vars

\* C16: in the learning phase no step of read_state_from_file changes the
\* value table, the exploration rate, the remembered state key and action,
\* the step counter, action.txt or q_table.json; and when the call reports
\* no observation (no file, or an error it caught) the tick ends there and
\* the loop polls again.
InRead == initial_sequence_complete /\ pc \in {"loop", "r_open", "r_remove"}
C16_NoObservationChangesNothing ==
    [][(InRead /\ pc' # "killed") =>
          /\ UNCHANGED <<q_table, EPSILON, last_state_key, last_action, steps>>
          /\ fs'[ACTION_FILE] = fs[ACTION_FILE]
          /\ fs'[Q_TABLE_FILE] = fs[Q_TABLE_FILE]
          /\ (pc' \notin {"r_open", "r_remove"} /\ current_state' = None) => pc' = "loop"]_vars

\* C16's case: after a processed observation, a tick has read a malformed
\* file, reported no observation and is back at the top of the loop.
C16_Witness ==
    /\ pc = "loop" /\ nProc = 1 /\ current_state = None
    /\ readSnap.kind = "state" /\ ParseLines(readSnap.lines).err
    /\ last_action # None /\ Exists(fs, ACTION_FILE)

\* C17: the tick of the first processed observation leaves the table as it
\* is; the tick of every later one makes, before choose_action, one
\* update_q_table call, on the remembered state key and action, the reward
\* of the file just read and the key of the state just read; nothing else
\* changes the table but choose_action adding the row of its key; and the
\* remembered pair changes only at the end of a processed tick, to the key
\* of the state read in that tick and the action chosen in it.
C17_UpdateFromPreviousTick ==
    [][LET obs == ParseLines(readSnap.lines)
           key == get_simplified_state(obs.state)
       IN  /\ (pc = "learn" /\ pc' # pc) =>
                 /\ pc' = "choose" /\ EPSILON' = EPSILON
                 /\ current_state_key' = key
                 /\ IF nProc = 0
                    THEN q_table' = q_table /\ nUpd' = 0
                    ELSE /\ q_table' = update_q_table(q_table, last_state_key[1],
                                                      last_action[1], obs.reward, key)
                         /\ nUpd' = nUpd + 1
           /\ pc # "learn" =>
                 /\ nUpd' = nUpd
                 /\ q_table' # q_table =>
                       (pc = "choose" /\ q_table' = EnsureRow(q_table, current_state_key))
           /\ (pc = "choose" /\ pc' # pc) => pc' = "w_open"
           /\ InWrite => action_to_perform' = action_to_perform
           /\ (pc = "remember" /\ pc' # pc) =>
                 /\ last_state_key' = Some(key)
                 /\ last_action' = Some(action_to_perform)
           /\ pc # "remember" => UNCHANGED <<last_state_key, last_action>>]_vars

\* C17's case: the second processed observation carried the reward 10, and
\* its update has credited the first tick's action with 0.1 * 10 = 1.
C17_Witness ==
    /\ pc = "choose" /\ nProc = 2 /\ nUpd = 1
    /\ reward = 10 * QScale
    /\ q_table[last_state_key[1]][last_action[1]] = 1 * QScale

\* C18: in the learning phase, when no file operation fails and the agent
\* keeps being scheduled, a whole well-formed observation in state.txt is
\* eventually answered: the agent reads that deposit, removes it, and
\* publishes the action it chose for it, unless the producer has deposited
\* again meanwhile.
WellFormedObservation == <<Line("screen_id", "int", 1), Line("reward", "int", 10)>>
Holds(d) ==
    /\ initial_sequence_complete
    /\ fs[STATE_FILE] = StateContent(d, WellFormedObservation)
Answered(d) ==
    /\ procCur = d /\ pc = "remember"
    /\ fs[ACTION_FILE] = ActionContent(action_to_perform, TRUE)
C18_EventuallyAnswered ==
    \A d \in 1..MaxDeposits : Holds(d) ~> (Answered(d) \/ depCount > d)

\* The other half of C18: the agent never waits for the producer; wherever
\* it is, it has a step of its own to take.
AgentNeverBlocks == ENABLED AgentStep

\* C19: after any number of choose_action calls from EPSILON = 1.0 the
\* exploration rate is at least MIN_EPSILON.
C19_NeverBelowMinimum == EPSILON >= MIN_EPSILON

\* C20: when a tick is about to call update_q_table, the action it credits
\* (the remembered last_action) is what action.txt holds, that is what the
\* preceding processed tick's call of write_action_to_file left there, also
\* when a file operation of that call failed.
C20_CreditsPublishedAction ==
    (pc = "learn" /\ HasPrevious(last_state_key, last_action))
        => fs[ACTION_FILE] = ActionContent(last_action[1], TRUE)

====
